---- MODULE Spec2Model ----
(***************************************************************************)
(* Credential resolution of minio-js: the providers (StaticCred, EnvMinio, *)
(* EnvAWS, IAMCredentials), the fallback chain (ChainCredentials) and the  *)
(* cache (Credentials).  Every promise belongs to one provider.retrieve()  *)
(* call of the cache: the promise that call returned, or one of the        *)
(* promises the chain obtained from its providers during it.               *)
(***************************************************************************)
EXTENDS Integers, Sequences, FiniteSets, TLC

\* ---------------------------------------------------------------- bounds
MaxProviders == 2      \* longest providers array handed to ChainCredentials
MaxGets == 2           \* calls of Credentials.get() in one run
MaxStubs == 1          \* externally implemented providers in the array

\* ------------------------------------------------------------ data model
Undefined == "undefined"          \* the JS value undefined
V4 == "S3v4"
Anonymous == "Anonymous"
NoPromise == 0                    \* Credentials.creds before the first refresh
NoProvider == 0                   \* ChainCredentials.curr while unset

Cred(ak, sk, tok, st) ==
    [accessKey |-> ak, secretKey |-> sk, sessionToken |-> tok, signerType |-> st]

NoCred == Cred(Undefined, Undefined, Undefined, Undefined)

AnonymousCredentials == Cred("", "", Undefined, Anonymous)

\* A promise: pending, fulfilled with cred, or rejected with err; `by` is the
\* index of the provider whose retrieve() made it, 0 for a promise made by
\* the chain (its then(), or its Promise.resolve).
Pending(i) == [st |-> "pending", cred |-> NoCred, err |-> 0, by |-> i]
Fulfilled(c, i) == [st |-> "fulfilled", cred |-> c, err |-> 0, by |-> i]
Rejected(e, i) == [st |-> "rejected", cred |-> NoCred, err |-> e, by |-> i]

\* The number NaN: what getTime() gives for a date that does not parse.
NaN == -1

\* No setExpiration() call yet.
NoSet == [expiration |-> NaN, window |-> 0]

\* ------------------------------------------------------------ environment
EnvNames == {"MINIO_ACCESS_KEY", "MINIO_SECRET_KEY", "AWS_ACCESS_KEY_ID",
             "AWS_ACCESS_KEY", "AWS_SECRET_ACCESS_KEY", "AWS_SECRET_KEY",
             "AWS_SESSION_TOKEN", "AWS_CONTAINER_CREDENTIALS_RELATIVE_URI"}

EnvWith(set) == [n \in EnvNames |-> IF n \in set THEN "k" ELSE Undefined]

\* The process environment the cache and chain are run in: the minio pair is
\* set and the AWS variables are not, so EnvMinio yields keys and EnvAWS an
\* empty credential.
CacheEnvs == {EnvWith({"MINIO_ACCESS_KEY", "MINIO_SECRET_KEY"})}

VARIABLES
    env,           \* process.env
    providers,     \* the IProvider objects: the chain's array, or the one wrapped
    wraps,         \* "chain": the cache wraps a ChainCredentials; "leaf": providers[1]
    retrieved,     \* EnvMinio.retrieved / EnvAWS.retrieved, per provider
    stubExpired,   \* what an externally implemented IProvider's isExpired() returns
    curr,          \* ChainCredentials.curr
    calls,         \* the provider.retrieve() calls get() made, in order: the promise
                   \* each returned and, for a chain, its providers' promises; and
                   \* as history the state of the cache when the call was made
    creds,         \* Credentials.creds: the call whose promise is cached
    forceRefresh,  \* Credentials.forceRefresh
    returned,      \* history: the promise each get() returned, as its call
    iamEndpoint,   \* IAMCredentials.endpoint
    expiration,    \* IAMCredentials.expiry.expiration
    now,           \* Date.now()
    iamCalls,      \* the IAMCredentials.retrieve() calls, in order
    lastSet,       \* history: the arguments of the latest Expiry.setExpiration()
    expires        \* history: the expire() calls counted by ExpireCounted

cacheVars == <<providers, wraps, retrieved, stubExpired, curr, calls, creds,
               forceRefresh, returned>>

iamVars == <<iamEndpoint, expiration, now, iamCalls>>

histVars == <<lastSet, expires>>

vars == <<env, cacheVars, iamVars, histVars>>

\* ------------------------------------------------------------- providers
\* A destructuring default (X = "") replaces undefined only.
Default(v) == IF v = Undefined THEN "" ELSE v

StaticCred(ak, sk) == [kind |-> "static", cred |-> Cred(ak, sk, Undefined, V4)]
EnvMinio == [kind |-> "envMinio", cred |-> NoCred]
EnvAWS == [kind |-> "envAWS", cred |-> NoCred]
\* An IProvider implemented outside these files: retrieve() returns a pending
\* promise that settles later, either way; isExpired() is its own opinion.
StubProvider == [kind |-> "stub", cred |-> NoCred]

Leaves == {StaticCred("k", "k"), EnvMinio, EnvAWS, StubProvider}

EnvMinioRetrieve ==
    LET ak == Default(env["MINIO_ACCESS_KEY"])
        sk == Default(env["MINIO_SECRET_KEY"])
    IN Cred(ak, sk, Undefined, IF ak = "" \/ sk = "" THEN Anonymous ELSE V4)

\* mutant: the legacy variables are not consulted
EnvAWSRetrieve_NoLegacy ==
    LET accessKey == Default(env["AWS_ACCESS_KEY_ID"])
        secretKey == Default(env["AWS_SECRET_ACCESS_KEY"])
    IN Cred(accessKey, secretKey, env["AWS_SESSION_TOKEN"],
            IF accessKey = "" \/ accessKey = "" THEN Anonymous ELSE V4)

EnvAWSRetrieve ==
    LET id == Default(env["AWS_ACCESS_KEY_ID"])
        legacyId == Default(env["AWS_ACCESS_KEY"])
        secret == Default(env["AWS_SECRET_ACCESS_KEY"])
        legacySecret == Default(env["AWS_SECRET_KEY"])
        accessKey == IF id = "" THEN legacyId ELSE id
        secretKey == IF secret = "" THEN legacySecret ELSE secret
    IN Cred(accessKey, secretKey, env["AWS_SESSION_TOKEN"],
            IF accessKey = "" \/ accessKey = "" THEN Anonymous ELSE V4)

\* providers[i].retrieve(): the promise it returns ...
LeafRetrieve(i) ==
    CASE providers[i].kind = "static" -> Fulfilled(providers[i].cred, i)
      [] providers[i].kind = "envMinio" -> Fulfilled(EnvMinioRetrieve, i)
      [] providers[i].kind = "envAWS" -> Fulfilled(EnvAWSRetrieve, i)
      [] providers[i].kind = "stub" -> Pending(i)

\* mutant: retrieve() does not set this.retrieved
LeafRetrieved_Never(i) == retrieved

\* ... and the retrieved flags after it.
LeafRetrieved(i) ==
    IF providers[i].kind \in {"envMinio", "envAWS"}
    THEN [retrieved EXCEPT ![i] = TRUE]
    ELSE retrieved

\* mutant: a StaticCred is expired until something marks it retrieved
LeafIsExpired_StaticFlag(i) ==
    CASE providers[i].kind \in {"static", "envMinio", "envAWS"} -> ~retrieved[i]
      [] providers[i].kind = "stub" -> stubExpired[i]

\* providers[i].isExpired()
LeafIsExpired(i) ==
    CASE providers[i].kind = "static" -> FALSE
      [] providers[i].kind \in {"envMinio", "envAWS"} -> ~retrieved[i]
      [] providers[i].kind = "stub" -> stubExpired[i]

\* ----------------------------------------------------------------- chain
\* mutant: || for && in the test for an empty credential
IsEmptyCred_Or(cred) ==
    cred = NoCred \/ (cred.accessKey = "" \/ cred.secretKey = "")

IsEmptyCred(cred) ==
    cred = NoCred \/ (cred.accessKey = "" /\ cred.secretKey = "")

\* if (index >= this.providers.length), with indices from 1
Exhausted(index) == index > Len(providers)

\* mutant: an exhausted chain resolves to a credential tagged V4
ExhaustedResult_V4 == Fulfilled(Cred("", "", Undefined, V4), 0)

ExhaustedResult == Fulfilled(AnonymousCredentials, 0)

\* mutant: a failing provider is treated as "try the next one"
ThenAction_Fallback(p) ==
    IF p.st = "rejected" \/ IsEmptyCred(p.cred) THEN "next" ELSE "return"

\* What the then() of _retrieve does with the settled promise p of a provider:
\* a rejection passes through, an empty credential goes on to the next index,
\* anything else is the result.
ThenAction(p) ==
    IF p.st = "rejected" THEN "reject"
    ELSE IF IsEmptyCred(p.cred) THEN "next"
    ELSE "return"

ChainIsExpired ==
    IF curr = NoProvider THEN TRUE ELSE LeafIsExpired(curr)

\* ChainCredentials.retrieve(), _retrieve(0): the promise it returns and the
\* promises obtained from the providers so far.
ChainRetrieve ==
    IF Exhausted(1)
    THEN [result |-> ExhaustedResult, inners |-> <<>>]
    ELSE [result |-> Pending(0), inners |-> <<LeafRetrieve(1)>>]

\* ----------------------------------------------------------------- cache
ProviderIsExpired ==
    IF wraps = "chain" THEN ChainIsExpired ELSE LeafIsExpired(1)

\* The state of the promise in this.creds.
CachedState ==
    IF creds = NoPromise THEN "none" ELSE calls[creds].result.st

\* mutant: a pending refresh is served whatever the force-refresh flag says
CacheIsExpired_PendingWins ==
    CachedState # "pending" /\ (forceRefresh \/ ProviderIsExpired)

\* mutant: the force-refresh flag is ignored
CacheIsExpired_NoForce == ProviderIsExpired

CacheIsExpired == forceRefresh \/ ProviderIsExpired

\* this.provider.retrieve()
ProviderRetrieve ==
    IF wraps = "chain"
    THEN ChainRetrieve
    ELSE [result |-> LeafRetrieve(1), inners |-> <<>>]

\* The first provider is asked by every retrieve() but that of an empty chain.
ProviderRetrieved ==
    IF Len(providers) = 0 THEN retrieved ELSE LeafRetrieved(1)

\* ------------------------------------------------------------------ Init
ProviderArrays ==
    {a \in UNION {[1..n -> Leaves] : n \in 0..MaxProviders} :
        Cardinality({i \in DOMAIN a : a[i].kind = "stub"}) <= MaxStubs}

Init ==
    /\ env \in CacheEnvs
    /\ wraps \in {"chain", "leaf"}
    /\ providers \in ProviderArrays
    /\ wraps = "leaf" => Len(providers) = 1
    /\ retrieved = [i \in 1..Len(providers) |-> FALSE]
    /\ stubExpired \in [1..Len(providers) -> BOOLEAN]
    /\ \A i \in 1..Len(providers) : providers[i].kind # "stub" => ~stubExpired[i]
    \* a chain never reads its providers' isExpired(), curr being never
    \* assigned: the opinion is left open only for the provider the cache wraps
    /\ wraps = "chain" => \A i \in 1..Len(providers) : ~stubExpired[i]
    /\ curr = NoProvider
    /\ calls = <<>>
    /\ creds = NoPromise
    /\ forceRefresh \in BOOLEAN
    /\ returned = <<>>
    /\ iamEndpoint = ""
    /\ expiration = 0
    /\ now = 0
    /\ iamCalls = <<>>
    /\ lastSet = NoSet
    /\ expires = 0

\* --------------------------------------------------------------- actions
\* Credentials.get()
Get ==
    /\ Len(returned) < MaxGets
    /\ IF CacheIsExpired
       THEN /\ calls' = Append(calls, [result |-> ProviderRetrieve.result,
                                       inners |-> ProviderRetrieve.inners,
                                       forced |-> forceRefresh,
                                       providerExpired |-> ProviderIsExpired,
                                       replaced |-> CachedState])
            /\ retrieved' = ProviderRetrieved
            /\ creds' = Len(calls) + 1
            /\ forceRefresh' = FALSE
       ELSE UNCHANGED <<calls, retrieved, creds, forceRefresh>>
    /\ returned' = Append(returned, creds')
    /\ UNCHANGED <<histVars, iamVars, env, providers, wraps, stubExpired, curr>>

\* Credentials.expire()
Expire ==
    /\ forceRefresh' = TRUE
    /\ UNCHANGED <<histVars, iamVars, env, providers, wraps, retrieved, stubExpired, curr,
                   calls, creds, returned>>

\* What a promise of an externally implemented provider settles to: a
\* credential with an access key, an empty one, or a failure.
StubCreds == {Cred("k", "", Undefined, V4), Cred("", "", Undefined, Anonymous)}

Settled(p) == {Fulfilled(c, p.by) : c \in StubCreds} \cup {Rejected(p.by, p.by)}

\* The pending promise of an externally implemented provider settles: the one
\* the cache got from the provider it wraps, or one the chain is waiting for.
Settle ==
    \E t \in 1..Len(calls) :
        /\ \/ /\ calls[t].result.st = "pending"
              /\ calls[t].result.by # 0
              /\ \E q \in Settled(calls[t].result) :
                     calls' = [calls EXCEPT ![t].result = q]
           \/ \E i \in 1..Len(calls[t].inners) :
                 /\ calls[t].inners[i].st = "pending"
                 /\ \E q \in Settled(calls[t].inners[i]) :
                        calls' = [calls EXCEPT ![t].inners[i] = q]
        /\ UNCHANGED <<histVars, iamVars, env, providers, wraps, retrieved, stubExpired, curr,
                       creds, forceRefresh, returned>>

\* The then() callback of _retrieve(index) runs on the settled promise of
\* providers[index].
ChainStep ==
    \E t \in 1..Len(calls) :
        LET call == calls[t]
            index == Len(call.inners)
            p == call.inners[index]
        IN
        /\ call.result.st = "pending"
        /\ call.result.by = 0
        /\ p.st # "pending"
        /\ CASE ThenAction(p) = "reject" ->
                  /\ calls' = [calls EXCEPT ![t].result = Rejected(p.err, 0)]
                  /\ UNCHANGED retrieved
             [] ThenAction(p) = "return" ->
                  /\ calls' = [calls EXCEPT ![t].result = Fulfilled(p.cred, 0)]
                  /\ UNCHANGED retrieved
             [] ThenAction(p) = "next" ->
                  IF Exhausted(index + 1)
                  THEN /\ calls' = [calls EXCEPT ![t].result = ExhaustedResult]
                       /\ UNCHANGED retrieved
                  ELSE /\ calls' = [calls EXCEPT
                                       ![t].inners = Append(@, LeafRetrieve(index + 1))]
                       /\ retrieved' = LeafRetrieved(index + 1)
        /\ UNCHANGED <<histVars, iamVars, env, providers, wraps, stubExpired, curr, creds,
                       forceRefresh, returned>>

Next == Get \/ Expire \/ Settle \/ ChainStep

Spec == Init /\ [][Next]_vars

\* ================================================= metadata service (IAM)
MaxIAMRetrieves == 2   \* calls of IAMCredentials.retrieve() in one run

DefaultExpiryWindow == 10000
defaultIAMRoleEndpoint == "http://169.254.169.254"
defaultECSRoleEndpoint == "http://169.254.170.2"
defaultIAMSecurityCredsPath == "/latest/meta-data/iam/security-credentials"

\* An endpoint handed to the constructor.
ExplicitEndpoint == "http://metadata.test"

\* The values of Date.now(), in ms.
Times == {0, 5000, 10000, 15000, 20000}

\* ---------------------------------------------------------------- Expiry
\* window > 0 ? expiration - window : expiration, in floating point
SetExpiration(exp, window) ==
    IF exp = NaN THEN NaN
    ELSE IF window > 0 THEN exp - window ELSE exp

\* Date.now() > this.expiration: false when expiration is NaN
ExpiryIsExpired == expiration # NaN /\ now > expiration

\* ------------------------------------------------------------ wire format
Doc(id, secret, token, exp) ==
    [AccessKeyID |-> id, SecretAccessKey |-> secret, Token |-> token,
     Expiration |-> exp]

NoDoc == Doc(Undefined, Undefined, Undefined, Undefined)

\* The credential documents the service answers with: two with credentials,
\* and an error document, which has none of the four fields.
Docs == {Doc("X", "Y", "Z", "1970-01-01T00:00:15Z"),
         Doc("X", "Y", "Z", "1970-01-01T00:00:20Z"),
         NoDoc}

\* new Date(s).getTime()
DateGetTime(s) ==
    CASE s = "1970-01-01T00:00:15Z" -> 15000
      [] s = "1970-01-01T00:00:20Z" -> 20000
      [] OTHER -> NaN

\* String(rawData).trim(), for the bodies of the role listing
ListBodies == {"", "\n", "role\n"}

Trim(body) ==
    CASE body = "\n" -> ""
      [] body = "role\n" -> "role"
      [] OTHER -> body

\* path.join normalises its result: the // of the scheme becomes /
PathNormalize(e) ==
    CASE e = defaultIAMRoleEndpoint -> "http:/169.254.169.254"
      [] e = ExplicitEndpoint -> "http:/metadata.test"
      [] OTHER -> e

PathJoin2(a, b) == PathNormalize(a) \o b

PathJoin3(a, b, c) == PathNormalize(a) \o b \o "/" \o c

\* getEndpoint(endpoint): `${defaultECSRoleEndpoint}${ecsURI}` with ecsURI
\* undefined ends in the text "undefined".
GetEndpoint(endpoint) ==
    LET ecsURI == env["AWS_CONTAINER_CREDENTIALS_RELATIVE_URI"]
        isEcsTask == ecsURI # ""
    IN IF endpoint # ""
       THEN [endpoint |-> endpoint, isEcsTask |-> isEcsTask]
       ELSE IF isEcsTask
       THEN [endpoint |-> defaultECSRoleEndpoint \o ecsURI, isEcsTask |-> TRUE]
       ELSE [endpoint |-> defaultIAMRoleEndpoint, isEcsTask |-> FALSE]

\* mutant: listRoleNames passes an empty body on
HasRoles_Always(body) == TRUE

\* listRoleNames: body.length > 0
HasRoles(body) == Len(body) > 0

\* The promise roleCreds.
PendingDoc == [st |-> "pending", doc |-> NoDoc, err |-> ""]
FulfilledDoc(d) == [st |-> "fulfilled", doc |-> d, err |-> ""]
RejectedDoc(e) == [st |-> "rejected", doc |-> NoDoc, err |-> e]

\* What retrieve() returns: the function has no return statement.
IAMRetrieveReturns == "undefined"

\* IAMCredentials.isExpired(): the class declares no such method, so the call
\* throws a TypeError and answers neither true nor false.
IAMIsExpired == "TypeError"

\* The value of the then() callback of retrieve(): no signerType.
IAMThenValue(d) == Cred(d.AccessKeyID, d.SecretAccessKey, d.Token, Undefined)

IAMEnvs ==
    {[n \in EnvNames |->
        IF n = "AWS_CONTAINER_CREDENTIALS_RELATIVE_URI" THEN v ELSE Undefined] :
     v \in {Undefined, "", "/v2/credentials"}}

InitIAM ==
    /\ env \in IAMEnvs
    /\ iamEndpoint \in {"", ExplicitEndpoint}
    /\ now \in {0, 5000}
    /\ expiration = now
    /\ iamCalls = <<>>
    /\ wraps = "chain"
    /\ providers = <<>>
    /\ retrieved = <<>>
    /\ stubExpired = <<>>
    /\ curr = NoProvider
    /\ calls = <<>>
    /\ creds = NoPromise
    /\ forceRefresh = TRUE
    /\ returned = <<>>
    /\ lastSet = NoSet
    /\ expires = 0

\* IAMCredentials.retrieve(): resolves the endpoint and issues the first GET.
IAMRetrieve ==
    /\ Len(iamCalls) < MaxIAMRetrieves
    /\ LET ep == GetEndpoint(iamEndpoint)
       IN iamCalls' = Append(iamCalls,
            [ret |-> IAMRetrieveReturns,
             endpoint |-> ep.endpoint,
             isEcsTask |-> ep.isEcsTask,
             listed |-> Undefined,
             stage |-> IF ep.isEcsTask THEN "creds" ELSE "list",
             requests |-> <<IF ep.isEcsTask THEN ep.endpoint
                            ELSE PathJoin2(ep.endpoint, defaultIAMSecurityCredsPath)>>,
             roleCreds |-> PendingDoc,
             applied |-> FALSE,
             value |-> NoCred])
    /\ UNCHANGED <<iamEndpoint, expiration, now, env, cacheVars, histVars>>

\* httpGet fails: a network error, or a status other than 200.
HttpFail ==
    \E t \in 1..Len(iamCalls) : \E e \in {"network", "status"} :
        /\ iamCalls[t].stage \in {"list", "creds"}
        /\ iamCalls' = [iamCalls EXCEPT ![t].stage = "done",
                                        ![t].roleCreds = RejectedDoc(e)]
        /\ UNCHANGED <<iamEndpoint, expiration, now, env, cacheVars, histVars>>

\* The role listing answers 200 (listRoleNames, then getCredentials' second GET).
HttpListRoles ==
    \E t \in 1..Len(iamCalls) : \E body \in ListBodies :
        /\ iamCalls[t].stage = "list"
        /\ IF HasRoles(Trim(body))
           THEN iamCalls' = [iamCalls EXCEPT
                    ![t].listed = Trim(body),
                    ![t].stage = "creds",
                    ![t].requests = Append(@, PathJoin3(iamCalls[t].endpoint,
                                                        defaultIAMSecurityCredsPath,
                                                        Trim(body)))]
           ELSE iamCalls' = [iamCalls EXCEPT ![t].listed = Trim(body),
                                             ![t].stage = "done",
                                             ![t].roleCreds = RejectedDoc("noroles")]
        /\ UNCHANGED <<iamEndpoint, expiration, now, env, cacheVars, histVars>>

\* The credential GET answers 200 (httpGetJSON): a document, or a body that
\* JSON.parse rejects.
HttpCredentials ==
    \E t \in 1..Len(iamCalls) :
        /\ iamCalls[t].stage = "creds"
        /\ \/ \E d \in Docs :
                 iamCalls' = [iamCalls EXCEPT ![t].stage = "done",
                                              ![t].roleCreds = FulfilledDoc(d)]
           \/ iamCalls' = [iamCalls EXCEPT ![t].stage = "done",
                                           ![t].roleCreds = RejectedDoc("json")]
        /\ UNCHANGED <<iamEndpoint, expiration, now, env, cacheVars, histVars>>

\* The then() callback of retrieve() runs on the fulfilled roleCreds.
IAMThen ==
    \E t \in 1..Len(iamCalls) :
        /\ iamCalls[t].roleCreds.st = "fulfilled"
        /\ ~iamCalls[t].applied
        /\ expiration' = SetExpiration(DateGetTime(iamCalls[t].roleCreds.doc.Expiration),
                                       DefaultExpiryWindow)
        /\ lastSet' = [expiration |-> DateGetTime(iamCalls[t].roleCreds.doc.Expiration),
                       window |-> DefaultExpiryWindow]
        /\ iamCalls' = [iamCalls EXCEPT
                           ![t].applied = TRUE,
                           ![t].value = IAMThenValue(iamCalls[t].roleCreds.doc)]
        /\ UNCHANGED <<iamEndpoint, now, env, cacheVars, expires>>

\* Time passes.
Tick ==
    /\ \E n \in Times : n > now /\ now' = n /\ \A m \in Times : ~(now < m /\ m < n)
    /\ UNCHANGED <<iamEndpoint, expiration, iamCalls, env, cacheVars, histVars>>

NextIAM == IAMRetrieve \/ HttpFail \/ HttpListRoles \/ HttpCredentials \/ IAMThen \/ Tick

SpecIAM == InitIAM /\ [][NextIAM]_vars

\* ============================== the cache over a static or env provider
MaxExpires == 2        \* counted calls of Credentials.expire() in one run

\* The value a variable holds when it is set to something.
EnvValue(n) ==
    CASE n = "MINIO_ACCESS_KEY" -> "minio-access"
      [] n = "MINIO_SECRET_KEY" -> "minio-secret"
      [] n = "AWS_ACCESS_KEY_ID" -> "id"
      [] n = "AWS_ACCESS_KEY" -> "legacy-id"
      [] n = "AWS_SECRET_ACCESS_KEY" -> "secret"
      [] n = "AWS_SECRET_KEY" -> "legacy-secret"
      [] n = "AWS_SESSION_TOKEN" -> "token"
      [] OTHER -> "/v2/credentials"

\* Every variable in names is absent, blank or set; the others are absent.
EnvsOver(names) ==
    {[n \in EnvNames |->
        IF n \notin names THEN Undefined
        ELSE CASE c[n] = 0 -> Undefined
               [] c[n] = 1 -> ""
               [] c[n] = 2 -> EnvValue(n)] :
     c \in [names -> 0..2]}

MinioNames == {"MINIO_ACCESS_KEY", "MINIO_SECRET_KEY"}
AWSNames == {"AWS_ACCESS_KEY_ID", "AWS_ACCESS_KEY", "AWS_SECRET_ACCESS_KEY",
             "AWS_SECRET_KEY", "AWS_SESSION_TOKEN"}

StaticLeaves == {StaticCred(ak, sk) : ak \in {"", "k"}, sk \in {"", "k"}}

\* new Credentials(provider) over a StaticCred, an EnvMinio or an EnvAWS; the
\* environment ranges over the variables the provider reads.
InitLeaf ==
    /\ wraps = "leaf"
    /\ providers \in {<<p>> : p \in StaticLeaves \cup {EnvMinio, EnvAWS}}
    /\ env \in CASE providers[1].kind = "static" -> EnvsOver({})
                 [] providers[1].kind = "envMinio" -> EnvsOver(MinioNames)
                 [] providers[1].kind = "envAWS" -> EnvsOver(AWSNames)
    /\ retrieved = <<FALSE>>
    /\ stubExpired = <<FALSE>>
    /\ curr = NoProvider
    /\ calls = <<>>
    /\ creds = NoPromise
    /\ forceRefresh = TRUE
    /\ returned = <<>>
    /\ iamEndpoint = ""
    /\ expiration = 0
    /\ now = 0
    /\ iamCalls = <<>>
    /\ lastSet = NoSet
    /\ expires = 0

\* Credentials.expire(), counted
ExpireCounted ==
    /\ expires < MaxExpires
    /\ forceRefresh' = TRUE
    /\ expires' = expires + 1
    /\ UNCHANGED <<lastSet, iamVars, env, providers, wraps, retrieved, stubExpired, curr,
                   calls, creds, returned>>

NextLeaf == Get \/ ExpireCounted

SpecLeaf == InitLeaf /\ [][NextLeaf]_vars

\* ================================ the cache over a chain of env providers
\* The variables the chain's providers are run against: the minio pair and
\* the primary AWS pair, each absent, blank or set.
ChainNames == MinioNames \cup {"AWS_ACCESS_KEY_ID", "AWS_SECRET_ACCESS_KEY"}

ChainLeaves == {StaticCred("k", "k"), EnvMinio, EnvAWS}

\* new Credentials(new ChainCredentials(providers)) over the providers of
\* this repository.
InitChain ==
    /\ wraps = "chain"
    /\ providers \in UNION {[1..n -> ChainLeaves] : n \in 0..MaxProviders}
    /\ env \in EnvsOver(ChainNames)
    /\ retrieved = [i \in 1..Len(providers) |-> FALSE]
    /\ stubExpired = [i \in 1..Len(providers) |-> FALSE]
    /\ curr = NoProvider
    /\ calls = <<>>
    /\ creds = NoPromise
    /\ forceRefresh = TRUE
    /\ returned = <<>>
    /\ iamEndpoint = ""
    /\ expiration = 0
    /\ now = 0
    /\ iamCalls = <<>>
    /\ lastSet = NoSet
    /\ expires = 0

NextChain == Get \/ Expire \/ ChainStep

SpecChain == InitChain /\ [][NextChain]_vars

\* ========================================================= Expiry, alone
\* The expiration instants and windows handed to setExpiration().
ExpiryInstants == {10000, 15000, 20000, 25000}
ExpiryWindows == {10000, 5000, 0, -10000}

\* new Expiry(expiration = Date.now())
InitExpiry ==
    /\ now \in {0, 5000}
    /\ expiration \in Times
    /\ lastSet = NoSet
    /\ expires = 0
    /\ env \in CacheEnvs
    /\ iamEndpoint = ""
    /\ iamCalls = <<>>
    /\ wraps = "chain"
    /\ providers = <<>>
    /\ retrieved = <<>>
    /\ stubExpired = <<>>
    /\ curr = NoProvider
    /\ calls = <<>>
    /\ creds = NoPromise
    /\ forceRefresh = TRUE
    /\ returned = <<>>

\* Expiry.setExpiration(expiration, window)
ExpirySet ==
    \E e \in ExpiryInstants : \E w \in ExpiryWindows :
        /\ expiration' = SetExpiration(e, w)
        /\ lastSet' = [expiration |-> e, window |-> w]
        /\ UNCHANGED <<iamEndpoint, now, iamCalls, env, cacheVars, expires>>

NextExpiry == ExpirySet \/ Tick

SpecExpiry == InitExpiry /\ [][NextExpiry]_vars

\* ================================================================ claims
\* A step of get(), and one in which get() called provider.retrieve().
IsGet == Len(returned') = Len(returned) + 1
DidRetrieve == Len(calls') = Len(calls) + 1

\* The calls of provider.retrieve() whose promise is still pending.
InFlight == {t \in 1..Len(calls) : calls[t].result.st = "pending"}

\* claim-side notion of an empty success, apart from the chain's own test
BothKeysEmpty(p) ==
    p.st = "fulfilled" /\ p.cred.accessKey = "" /\ p.cred.secretKey = ""

\* C1 (as claimed): at most one provider.retrieve() of the cache is in flight
\* at a time, and a get() issued while a refresh is pending returns that
\* pending promise without calling retrieve() again.
C1_SingleFlight ==
    /\ [](Cardinality(InFlight) <= 1)
    /\ [][(IsGet /\ CachedState = "pending")
            => (~DidRetrieve /\ returned'[Len(returned')] = creds)]_vars

\* C2 (as claimed): when the refresh that replaced a resolved value fails, the
\* cache still stores the previously resolved value.
C2_FailedRefreshKeepsValue ==
    \A t \in 2..Len(calls) :
        (t = Len(calls) /\ calls[t].replaced = "fulfilled"
            /\ calls[t].result.st = "rejected")
        => creds = t - 1

\* C3 (as claimed): a get() made while the cached promise is a failure calls
\* provider.retrieve() again.
C3_RetryAfterFailure ==
    [][(IsGet /\ CachedState = "rejected") => DidRetrieve]_vars

\* C4: a get() made with the force-refresh flag set calls provider.retrieve(),
\* caches and returns the new promise and clears the flag; only get() clears
\* the flag; and get() calls retrieve() exactly when the flag is set or the
\* provider reports expired.
C4_ExpireForcesRetrieve ==
    /\ [][(IsGet /\ forceRefresh)
            => (DidRetrieve /\ creds' = Len(calls') /\ ~forceRefresh'
                /\ returned'[Len(returned')] = creds')]_vars
    /\ [][(forceRefresh /\ ~forceRefresh') => IsGet]_vars
    /\ [][IsGet => (DidRetrieve <=> (forceRefresh \/ ProviderIsExpired))]_vars

\* C4 witness: after a first refresh, expire() was called on a cache whose
\* provider reports not expired, and the next get() called retrieve().
C4_Witness ==
    \E t \in 2..Len(calls) :
        /\ calls[t].forced
        /\ ~calls[t].providerExpired
        /\ returned[Len(returned)] = t

\* C5 (as claimed): the first get() calls provider.retrieve() and no get()
\* returns undefined.
C5_GetNeverUndefined ==
    /\ Len(returned) >= 1 => Len(calls) >= 1
    /\ \A k \in 1..Len(returned) : returned[k] # NoPromise

\* The provider that satisfied call t of the chain: the last one asked, when
\* the call resolved to its non-empty credential; 0 otherwise.
SatisfiedBy(t) ==
    LET n == Len(calls[t].inners)
    IN IF /\ n >= 1
          /\ calls[t].result.st = "fulfilled"
          /\ calls[t].inners[n].st = "fulfilled"
          /\ ~BothKeysEmpty(calls[t].inners[n])
       THEN n ELSE 0

\* C6 (as claimed): once the chain's retrieve() calls have all completed and
\* were satisfied by one provider P_i, chain.isExpired() is P_i.isExpired().
C6_ChainDelegatesExpiry ==
    (wraps = "chain" /\ calls # <<>> /\ InFlight = {})
    => \A i \in 1..Len(providers) :
           (\A t \in 1..Len(calls) : SatisfiedBy(t) = i)
           => (ChainIsExpired <=> LeafIsExpired(i))

\* C7: in every retrieve() of the chain the providers are asked in index
\* order, each at most once; every provider before the last one asked
\* succeeded with both keys empty; and once the last one asked has a
\* non-empty result, the chain's result is that value or still pending.
C7_ChainOrder ==
    wraps = "chain" =>
    \A t \in 1..Len(calls) :
        LET c == calls[t]
            n == Len(c.inners)
        IN /\ n <= Len(providers)
           /\ \A i \in 1..n : c.inners[i].by = i
           /\ \A i \in 1..(n - 1) : BothKeysEmpty(c.inners[i])
           /\ (n >= 1 /\ c.inners[n].st = "fulfilled" /\ ~BothKeysEmpty(c.inners[n]))
              => \/ c.result.st = "pending"
                 \/ c.result.st = "fulfilled" /\ c.result.cred = c.inners[n].cred
           /\ (c.result.st = "fulfilled" /\ n < Len(providers))
              => c.result.cred = c.inners[n].cred

\* C7 witness: [P1(empty), P2(with keys), ...]: P1 was skipped, P2's value was
\* returned.
C7_Witness ==
    /\ wraps = "chain"
    /\ \E t \in 1..Len(calls) :
          /\ Len(calls[t].inners) = 2
          /\ BothKeysEmpty(calls[t].inners[1])
          /\ SatisfiedBy(t) = 2
          /\ calls[t].result.cred = calls[t].inners[2].cred

\* C8: when a provider of the chain fails, no later provider is asked, the
\* chain's promise is pending or rejected with that same error, and a
\* rejected chain promise carries the error of the provider asked last; the
\* promise get() returns is that promise.
C8_FailurePropagates ==
    wraps = "chain" =>
    /\ \A t \in 1..Len(calls) :
          LET c == calls[t]
              n == Len(c.inners)
          IN /\ \A i \in 1..n :
                   c.inners[i].st = "rejected"
                   => /\ i = n
                      /\ c.result.st \in {"pending", "rejected"}
                      /\ c.result.st = "rejected" => c.result.err = c.inners[i].err
             /\ c.result.st = "rejected"
                => (n >= 1 /\ c.inners[n].st = "rejected"
                    /\ c.inners[n].err = c.result.err)
    /\ \A k \in 1..Len(returned) : returned[k] \in 1..Len(calls)

\* C8 witness: the first of two providers failed, the chain's promise is
\* rejected with its error, the second was never asked, and get() returned
\* that promise.
C8_Witness ==
    /\ wraps = "chain"
    /\ Len(providers) >= 2
    /\ \E t \in 1..Len(calls) :
          /\ Len(calls[t].inners) = 1
          /\ calls[t].inners[1].st = "rejected"
          /\ calls[t].result = Rejected(calls[t].inners[1].err, 0)
          /\ \E k \in 1..Len(returned) : returned[k] = t

\* C9: a retrieve() of the chain in which every provider succeeded with empty
\* keys, or of an empty chain, does not fail and resolves to the anonymous
\* credential; that of an empty chain is resolved at once.
C9_ExhaustedIsAnonymous ==
    wraps = "chain" =>
    \A t \in 1..Len(calls) :
        LET c == calls[t]
            n == Len(c.inners)
        IN (n = Len(providers) /\ \A i \in 1..n : BothKeysEmpty(c.inners[i]))
           => /\ c.result.st # "rejected"
              /\ c.result.st = "fulfilled"
                 => c.result.cred =
                      [accessKey |-> "", secretKey |-> "",
                       sessionToken |-> Undefined, signerType |-> "Anonymous"]
              /\ n = 0 => c.result.st = "fulfilled"

\* C9 witness: both providers of a chain of two succeeded with empty keys and
\* the chain's promise is fulfilled.
C9_Witness ==
    /\ wraps = "chain"
    /\ Len(providers) = 2
    /\ \E t \in 1..Len(calls) :
          /\ Len(calls[t].inners) = 2
          /\ \A i \in 1..2 : BothKeysEmpty(calls[t].inners[i])
          /\ calls[t].result.st = "fulfilled"

\* The calls of IAMCredentials.retrieve() whose fetch succeeded and whose
\* then() callback has run.
IAMSucceeded == {t \in 1..Len(iamCalls) : iamCalls[t].applied}

\* C10 (as claimed): a successful metadata-service retrieve() has set the
\* expiry tracker to the document's Expiration less the 10-second window, and
\* has returned to its caller a promise of {accessKey: AccessKeyID,
\* secretKey: SecretAccessKey, sessionToken: Token, signerType: V4}.
C10_RetrieveReturnsValue ==
    \A t \in IAMSucceeded :
        LET d == iamCalls[t].roleCreds.doc
        IN /\ IAMSucceeded = {t}
              => expiration = SetExpiration(DateGetTime(d.Expiration), 10000)
           /\ iamCalls[t].ret = "promise"
           /\ iamCalls[t].value = Cred(d.AccessKeyID, d.SecretAccessKey, d.Token, V4)

\* C11: after setExpiration(T, 10000), isExpired() is true for
\* every now >= T - 10000 and false for every now < T - 10000; with a window
\* <= 0 the effective expiration is T.
C11_ExpiredFromWindowStart ==
    lastSet # NoSet =>
    /\ lastSet.window = 10000
       => (ExpiryIsExpired <=> now >= lastSet.expiration - 10000)
    /\ lastSet.window <= 0 => expiration = lastSet.expiration

\* C12: with no explicit endpoint, retrieve() works in ECS-task mode (one GET
\* to the task metadata base followed by the relative URI) only if the
\* relative-URI variable is present and non-empty; if it is absent or empty
\* it works in EC2-instance mode against the default instance-metadata base.
C12_EcsOnlyWhenUriSet ==
    \A t \in 1..Len(iamCalls) :
        iamEndpoint = "" =>
            LET uri == env["AWS_CONTAINER_CREDENTIALS_RELATIVE_URI"]
            IN IF uri \notin {Undefined, ""}
               THEN /\ iamCalls[t].isEcsTask
                    /\ iamCalls[t].requests[1] = defaultECSRoleEndpoint \o uri
               ELSE /\ ~iamCalls[t].isEcsTask
                    /\ iamCalls[t].endpoint = defaultIAMRoleEndpoint

\* C13: an EnvAWS or EnvMinio reports isExpired() true in every state before
\* its first retrieve() and false in every state after it, whatever the
\* variables hold, all of them blank included.
C13_EnvExpiredUntilRetrieved ==
    providers[1].kind \in {"envMinio", "envAWS"} =>
        /\ LeafIsExpired(1) <=> calls = <<>>
        /\ \A t \in 1..Len(calls) : calls[t].providerExpired <=> t = 1

\* C13 witness: an env provider whose variables are all blank has been asked
\* twice and reports not expired.
C13_Witness ==
    /\ providers[1].kind \in {"envMinio", "envAWS"}
    /\ \A n \in MinioNames \cup AWSNames : env[n] \in {Undefined, ""}
    /\ \E n \in MinioNames \cup AWSNames : env[n] = ""
    /\ Len(calls) = 2
    /\ ~LeafIsExpired(1)

\* C14: a StaticCred reports isExpired() false in every state, before and
\* after any calls; every retrieve() of it resolves at once to the credential
\* it was constructed with, never fails, and changes no state of the provider.
C14_StaticNeverExpiresNorChanges ==
    /\ [](providers[1].kind = "static" =>
            /\ ~LeafIsExpired(1)
            /\ \A t \in 1..Len(calls) :
                  /\ calls[t].result = Fulfilled(providers[1].cred, 1)
                  /\ ~calls[t].providerExpired)
    /\ [][providers[1].kind = "static" /\ DidRetrieve
            => UNCHANGED <<providers, retrieved, stubExpired, env>>]_vars

\* C14 witness: a StaticCred has been asked twice, the second time after
\* expire().
C14_Witness ==
    /\ providers[1].kind = "static"
    /\ Len(calls) = 2
    /\ \A t \in 1..2 : calls[t].result.st = "fulfilled"

\* C15: the metadata-service provider has an isExpired() that answers what
\* its Expiry answers, and in every state before its first successful
\* retrieve() the answer is expired, the instant of construction included.
C15_ExpiredUntilFirstSuccess ==
    /\ IAMIsExpired = IF ExpiryIsExpired THEN "true" ELSE "false"
    /\ IAMSucceeded = {} => IAMIsExpired = "true" /\ ExpiryIsExpired

\* C16: in EC2-instance mode the first GET of retrieve() is the role listing
\* and the per-role credential GET is issued only after the listing answered
\* with a non-empty body; on an empty listing body retrieve() fails with "no
\* roles attached" and issues no second GET. In ECS-task mode retrieve()
\* issues exactly one GET.
C16_ListingBeforeCredentials ==
    \A t \in 1..Len(iamCalls) :
        LET c == iamCalls[t]
            listing == PathJoin2(c.endpoint, defaultIAMSecurityCredsPath)
        IN IF c.isEcsTask
           THEN /\ c.requests = <<c.endpoint>>
                /\ c.listed = Undefined
           ELSE /\ Len(c.requests) \in {1, 2}
                /\ c.requests[1] = listing
                /\ Len(c.requests) = 2 <=> (c.listed # Undefined /\ c.listed # "")
                /\ Len(c.requests) = 2
                   => c.requests[2] = PathJoin3(c.endpoint, defaultIAMSecurityCredsPath,
                                                c.listed)
                /\ c.listed = "" => c.stage = "done" /\ c.roleCreds = RejectedDoc("noroles")
                /\ c.roleCreds.st = "fulfilled" => Len(c.requests) = 2

\* C16 witness: one EC2-mode retrieve() failed on an empty listing after one
\* GET, another got its document with the second GET.
C16_Witness ==
    \E t, u \in 1..Len(iamCalls) :
        /\ ~iamCalls[t].isEcsTask
        /\ iamCalls[t].listed = ""
        /\ iamCalls[t].roleCreds.err = "noroles"
        /\ Len(iamCalls[t].requests) = 1
        /\ ~iamCalls[u].isEcsTask
        /\ iamCalls[u].roleCreds.st = "fulfilled"
        /\ Len(iamCalls[u].requests) = 2

\* The retrieve() calls that failed: a network error, a status other than
\* 200, an empty role listing, or a body that is not JSON.
IAMFailed == {t \in 1..Len(iamCalls) : iamCalls[t].roleCreds.st = "rejected"}

\* C17: a metadata-service retrieve() that fails on a network error, a
\* non-200 status, an empty role list or malformed JSON hands the failure to
\* its caller as the rejection of the promise it returned, issues no further
\* HTTP request and leaves the expiry tracker unchanged.
C17_FailureDeliveredNoRetry ==
    /\ [](\A t \in IAMFailed :
            /\ iamCalls[t].ret = "promise"
            /\ iamCalls[t].stage = "done"
            /\ ~iamCalls[t].applied)
    /\ [][\A t \in IAMFailed : iamCalls'[t].requests = iamCalls[t].requests]_vars
    /\ [][expiration' # expiration
            => \E t \in 1..Len(iamCalls) :
                  /\ iamCalls[t].roleCreds.st = "fulfilled"
                  /\ iamCalls'[t].applied /\ ~iamCalls[t].applied]_vars

\* claim-side reading of the environment: an absent variable is the empty
\* string, and the first non-empty of two values
EnvString(n) == IF env[n] = Undefined THEN "" ELSE env[n]
FirstNonEmpty(a, b) == IF a # "" THEN a ELSE b

\* C18: every retrieve() of an EnvAWS resolves to the credential whose access
\* key is AWS_ACCESS_KEY_ID if non-empty, else AWS_ACCESS_KEY, whose secret
\* key is AWS_SECRET_ACCESS_KEY if non-empty, else AWS_SECRET_KEY, whose
\* session token is AWS_SESSION_TOKEN as it stands, and whose signature kind
\* is Anonymous exactly when that access key is empty, else V4; every
\* retrieve() of an EnvMinio resolves to the two MINIO_ variables, with no
\* fallback.
C18_EnvResolution ==
    \A t \in 1..Len(calls) :
        /\ providers[1].kind = "envAWS" =>
              LET ak == FirstNonEmpty(EnvString("AWS_ACCESS_KEY_ID"),
                                      EnvString("AWS_ACCESS_KEY"))
                  sk == FirstNonEmpty(EnvString("AWS_SECRET_ACCESS_KEY"),
                                      EnvString("AWS_SECRET_KEY"))
              IN /\ calls[t].result.st = "fulfilled"
                 /\ calls[t].result.cred.accessKey = ak
                 /\ calls[t].result.cred.secretKey = sk
                 /\ calls[t].result.cred.sessionToken = env["AWS_SESSION_TOKEN"]
                 /\ calls[t].result.cred.signerType
                       = IF ak = "" THEN Anonymous ELSE V4
        /\ providers[1].kind = "envMinio" =>
              /\ calls[t].result.st = "fulfilled"
              /\ calls[t].result.cred.accessKey = EnvString("MINIO_ACCESS_KEY")
              /\ calls[t].result.cred.secretKey = EnvString("MINIO_SECRET_KEY")

\* C18 witness: with AWS_ACCESS_KEY_ID blank and AWS_SECRET_ACCESS_KEY absent
\* an EnvAWS has resolved to the two legacy variables and the session token.
C18_Witness ==
    /\ providers[1].kind = "envAWS"
    /\ env["AWS_ACCESS_KEY_ID"] = ""
    /\ env["AWS_SECRET_ACCESS_KEY"] = Undefined
    /\ Len(calls) >= 1
    /\ calls[1].result.cred = Cred("legacy-id", "legacy-secret", "token", V4)

\* C19: an expire() that arrives while a refresh is pending is not lost. The
\* force-refresh flag is cleared by the get() that starts a retrieve() and by
\* nothing else, the completion of the refresh included; so a get() that
\* finds the flag set and the cached promise pending starts a new retrieve()
\* and returns the new promise, not the pending older one.
C19_ExpireWhilePendingNotLost ==
    /\ [][IsGet /\ forceRefresh /\ CachedState = "pending"
            => /\ DidRetrieve
               /\ creds' = Len(calls') /\ creds' # creds
               /\ returned'[Len(returned')] = creds']_vars
    /\ [][DidRetrieve => ~forceRefresh']_vars
    /\ [][forceRefresh /\ ~forceRefresh' => DidRetrieve]_vars

\* C19 witness: a get() found the flag set by expire() over a pending refresh
\* of a provider that reports not expired, and returned the promise of a new
\* retrieve().
C19_Witness ==
    \E t \in 2..Len(calls) :
        /\ calls[t].forced
        /\ calls[t].replaced = "pending"
        /\ ~calls[t].providerExpired
        /\ calls[t - 1].result.st = "pending"
        /\ returned[Len(returned)] = t

WellTagged(cred) ==
    /\ cred.signerType = V4 => cred.accessKey # "" /\ cred.secretKey # ""
    /\ cred.signerType = Anonymous => cred.accessKey = "" /\ cred.secretKey = ""

\* C21: every credential a provider of the chain resolves to is tagged V4
\* only with both keys non-empty and Anonymous only with both keys empty, and
\* so is every credential the chain resolves to as its result.
C21_TagsAgreeWithKeys ==
    \A t \in 1..Len(calls) :
        /\ calls[t].result.st = "fulfilled" => WellTagged(calls[t].result.cred)
        /\ \A i \in 1..Len(calls[t].inners) :
              calls[t].inners[i].st = "fulfilled"
                 => WellTagged(calls[t].inners[i].cred)

====
